---- MODULE Spec2Model ----
(***************************************************************************)
(* Fairbuds Web Bluetooth client: the QXW packet codec, the gain/Q        *)
(* encoding, the EQ state and the notification handler.                    *)
(*                                                                         *)
(* Representation.  Bytes and typed arrays are sequences of integers       *)
(* (index i of the source is index i+1 here).  Real numbers (dB, Q) are    *)
(* integers counting hundredths: 13.5 dB is 1350, Q 0.71 is 71.  On that   *)
(* grid IEEE double arithmetic of `x * 10` followed by Math.round agrees   *)
(* with exact arithmetic, so MathRound below works on exact fractions.     *)
(* Strings made of char codes are the sequences of those codes.            *)
(*                                                                         *)
(* Left out: the "active" highlight of the preset buttons, and the value   *)
(* and label of each slider element, which the script always sets together *)
(* with bandGains; the hex text of a log line is kept as the bytes logged.  *)
(***************************************************************************)
EXTENDS Integers, Sequences, FiniteSets, Bags, TLC

VARIABLES
    \* ---- session globals of the script
    device,          \* the BluetoothDevice last tried, or Null
    server,          \* its GATT server handle, or Null
    writeChar,       \* the write characteristic handle, or Null
    notifyChar,      \* the notify characteristic handle, or Null
    connected,       \* the `connected` flag
    \* ---- EQ state (module-level arrays of the script)
    bandGains,       \* encoded gain byte of each band, index 1..NUM_BANDS
    bandQs,          \* encoded Q byte of each band
    \* ---- what the page shows
    statusText,      \* "status" textContent
    statusClass,     \* "status" className
    connectBtn,      \* "connect-btn": [disabled, shown]
    disconnectShown, \* "disconnect-btn" is displayed
    controlsEnabled, \* preset buttons, sliders, Apply and Reset are enabled
    cardsShown,      \* "presets-card" and "eq-card" lost class "hidden"
    batLeft,         \* "bat-left": <<>> before any device info, <<n>> for "n%"
    batRight,        \* "bat-right"
    deviceName,      \* "device-name": the char codes of the shown name
    infoCardHidden,  \* "info-card" carries class "hidden"
    logLast,         \* the last line appended to the log
    \* ---- the BLE transport (Web Bluetooth and the earbuds)
    linkUp,          \* devices whose GATT link is connected
    handlers,        \* devices whose notify characteristic calls onNotification
    dropListeners,   \* devices with a gattserverdisconnected listener
    pendingDrop,     \* devices whose gattserverdisconnected event is queued
    txLast,          \* the last frame written to the link
    txCount,         \* how many frames were written to the link
    \* ---- suspended async functions
    tasks,           \* bag of [fn, at, dev, ok, arg]: each waits at an await
    events,          \* clicks, slider moves, notifications and link drops so far
    \* ---- direct calls of the pure helpers
    pc,              \* "off", "session", or "ready" -> "called" -> "returned"
    callArgs,        \* the arguments of the call
    callResult,      \* what the call returned
    callBack         \* what the inverse helper made of callResult

sessVars == <<device, server, writeChar, notifyChar, connected>>
eqVars   == <<bandGains, bandQs>>
pageVars == <<statusText, statusClass, connectBtn, disconnectShown,
              controlsEnabled, cardsShown>>
infoVars == <<batLeft, batRight, deviceName, infoCardHidden>>
bleVars  == <<linkUp, handlers, dropListeners, pendingDrop>>
txVars   == <<txLast, txCount>>
callVars == <<pc, callArgs, callResult, callBack>>
vars     == <<sessVars, eqVars, pageVars, infoVars, logLast, bleVars, txVars,
              tasks, events, callVars>>

---------------------------------------------------------------------------
(* Protocol constants *)

QXW_PREFIX      == <<81, 88, 87>>
CMD_SELECT_EQ   == 16
CMD_CUSTOM_EQ   == 32
CMD_DEVICE_INFO == 39
TYPE_REQUEST    == 1
TYPE_NOTIFY     == 3
GAIN_OFFSET     == 120
GAIN_SCALE      == 10
GAIN_MIN_DB     == -1200
GAIN_MAX_DB     == 1350
DEFAULT_Q       == 7
NUM_BANDS       == 8
RESPONSE_TIMEOUT == 5000   \* milliseconds; declared by the script, never read

---------------------------------------------------------------------------
(* Helpers of the JavaScript runtime *)

Max(a, b) == IF a >= b THEN a ELSE b
Min(a, b) == IF a <= b THEN a ELSE b

\* Storing a number into a Uint8Array element keeps it modulo 2^8.
ToUint8(n) == n % 256

\* A faulty variant of MathRound: an exact half going away from zero.
MathRoundHalfAway(num, den) ==
    IF num >= 0 THEN (2 * num + den) \div (2 * den)
    ELSE -((2 * (-num) + den) \div (2 * den))

\* Math.round of the fraction num/den (den > 0): the nearest integer, an exact
\* half going to the next integer towards +infinity.
MathRound(num, den) == (2 * num + den) \div (2 * den)

\* A typed array of n bytes all equal to b.
Fill(n, b) == [i \in 1..n |-> b]

\* array.slice(from): the elements from 0-based index `from` to the end.
Slice(arr, from) == SubSeq(arr, from + 1, Len(arr))

\* array.slice(from, to): 0-based, `to` exclusive and cut to the length.
Slice2(arr, from, to) == SubSeq(arr, from + 1, Min(to, Len(arr)))

---------------------------------------------------------------------------
(* Faulty variants of the helpers below.  Each departs from the source in  *)
(* one respect; a property that is worth stating tells the helper from its  *)
(* variant.                                                                 *)

\* encodeGain with the scaled value cut down to an integer instead of rounded.
encodeGainFloor(db) ==
    LET encoded == ((db * 10) \div 100) + 120
    IN  Max(0, Min(255, encoded))

\* decodeGain in whole dB.
decodeGainWholeDb(byteVal) == ((byteVal - 120) \div 10) * 100

\* buildPacket with the command and the type byte in each other's place.
buildPacketTypeFirst(cmd, type, payload) ==
    LET pLen == IF payload.present THEN Len(payload.bytes) ELSE 0
        head == <<81, 88, 87, ToUint8(type), ToUint8(cmd), ToUint8(pLen)>>
    IN  IF payload.present THEN head \o payload.bytes ELSE head

\* buildPacket without the length byte, the payload following the type.
buildPacketNoLength(cmd, type, payload) ==
    LET head == <<81, 88, 87, ToUint8(cmd), ToUint8(type)>>
    IN  IF payload.present THEN head \o payload.bytes ELSE head

\* The prefix check looking at the length and the first byte only.
HasQxwPrefixFirstByte(value) == ~ (Len(value) < 5 \/ value[1] # 81)

\* The command read from the byte after it.
rxCmdAtSub(value) == value[5]

\* The info payload taken from behind a length byte.
rxPayloadAfterLength(value) == Slice(value, 6)

\* The preset gains stored as tenths of a dB, without the offset.
PresetGainsRaw(preset) ==
    [i \in 1..8 |-> MathRound(preset.bands[i][1] * 10, 100)]

\* The device info with the batteries read from the first two payload bytes.
DeviceInfoOfFirstBytes(payload) ==
    [batteryLeft  |-> payload[1],
     batteryRight |-> payload[2],
     deviceName   |-> <<>>]

\* A name candidate taken without looking at its bytes.
NameAtAnyBytes(payload, i) ==
    LET nameLen == payload[i + 1]
    IN  IF nameLen > 0 /\ nameLen < 32 /\ i + 1 + nameLen <= Len(payload)
        THEN [found |-> TRUE,
              name  |-> SubSeq(payload, i + 2, i + 1 + nameLen)]
        ELSE [found |-> FALSE, name |-> <<>>]

\* A name candidate that has to end before the last byte of the payload
\* (`<` for `<=` in the bound check).
NameAtBeforeEnd(payload, i) ==
    LET nameLen == payload[i + 1]
    IN  IF nameLen > 0 /\ nameLen < 32 /\ i + 1 + nameLen < Len(payload)
        THEN LET nameBytes == SubSeq(payload, i + 2, i + 1 + nameLen)
             IN  IF \A j \in 1..Len(nameBytes) :
                        ~ (nameBytes[j] < 32 \/ nameBytes[j] > 126)
                 THEN [found |-> TRUE, name |-> nameBytes]
                 ELSE [found |-> FALSE, name |-> <<>>]
        ELSE [found |-> FALSE, name |-> <<>>]

\* The name scan stopping at the valid candidate of lowest index.
ScanNameLeftmost(payload, i) ==
    LET hits == {k \in 5..i : NameAtAnyBytes(payload, k).found
                              /\ \A j \in 1..Len(NameAtAnyBytes(payload, k).name) :
                                    /\ NameAtAnyBytes(payload, k).name[j] >= 32
                                    /\ NameAtAnyBytes(payload, k).name[j] <= 126}
    IN  IF hits = {} THEN <<>>
        ELSE NameAtAnyBytes(payload,
                            CHOOSE k \in hits : \A m \in hits : k <= m).name

\* The custom-EQ payload with the Q byte before the gain byte.
CustomEqPayloadQFirst(gains, qs) ==
    [k \in 1..24 |->
        LET i == (k - 1) \div 3
        IN  CASE (k - 1) % 3 = 0 -> ToUint8(i)
              [] (k - 1) % 3 = 1 -> ToUint8(qs[i + 1])
              [] OTHER           -> ToUint8(gains[i + 1])]

---------------------------------------------------------------------------
(* Gain and Q encoding *)

encodeGain(db) ==
    LET encoded == MathRound(db * GAIN_SCALE, 100) + GAIN_OFFSET
    IN  Max(0, Min(255, encoded))

\* (byteVal - 120) / 10, in hundredths of a dB.
decodeGain(byteVal) == ((byteVal - GAIN_OFFSET) * 100) \div GAIN_SCALE

\* The Q byte applyCustomPreset stores for qReal (hundredths).
encodeQ(qReal) == Max(0, Min(255, MathRound(qReal * 10, 100)))

---------------------------------------------------------------------------
(* QXW packet builder *)

\* An optional payload: absent (null) or a typed array.
NoPayload      == [present |-> FALSE, bytes |-> <<>>]
Payload(bytes) == [present |-> TRUE, bytes |-> bytes]

buildPacket(cmd, type, payload) ==
    LET pLen == IF payload.present THEN Len(payload.bytes) ELSE 0
        head == <<QXW_PREFIX[1], QXW_PREFIX[2], QXW_PREFIX[3],
                  ToUint8(cmd), ToUint8(type), ToUint8(pLen)>>
    IN  IF payload.present THEN head \o payload.bytes ELSE head

---------------------------------------------------------------------------
(* Notification handler *)

LogLine(tag, arg) == [tag |-> tag, arg |-> arg]

\* The prefix check of onNotification: TRUE when the packet is let through.
HasQxwPrefix(value) ==
    ~ (Len(value) < 5 \/ value[1] # 81 \/ value[2] # 88 \/ value[3] # 87)

\* What the handler reads from a packet that passed the prefix check.
rxCmd(value)     == value[4]
rxSub(value)     == value[5]
rxPayload(value) == Slice(value, 5)

\* One candidate of the backwards name scan at 0-based index i.
NameAt(payload, i) ==
    LET nameLen == payload[i + 1]
    IN  IF nameLen > 0 /\ nameLen < 32 /\ i + 1 + nameLen <= Len(payload)
        THEN LET nameBytes == Slice2(payload, i + 1, i + 1 + nameLen)
             IN  IF \A j \in 1..Len(nameBytes) :
                        ~ (nameBytes[j] < 32 \/ nameBytes[j] > 126)
                 THEN [found |-> TRUE, name |-> nameBytes]
                 ELSE [found |-> FALSE, name |-> <<>>]
        ELSE [found |-> FALSE, name |-> <<>>]

\* for (i = payload.length - 1; i >= 5; i--): the scan from 0-based index i
\* downwards stops at the first valid candidate, the one of highest index.
ScanName(payload, i) ==
    LET hits == {k \in 5..i : NameAt(payload, k).found}
    IN  IF hits = {} THEN <<>>
        ELSE NameAt(payload, CHOOSE k \in hits : \A m \in hits : m <= k).name

\* parseDeviceInfo as a function of the payload: the record of what it found.
DeviceInfoOf(payload) ==
    [batteryLeft  |-> payload[3],
     batteryRight |-> payload[4],
     deviceName   |-> ScanName(payload, Len(payload) - 1)]

parseDeviceInfo(payload) ==
    IF Len(payload) < 5
    THEN /\ logLast' = LogLine("Device info payload too short", <<>>)
         /\ UNCHANGED <<batLeft, batRight, deviceName, infoCardHidden>>
    ELSE LET info == DeviceInfoOf(payload)
         IN  /\ logLast' = LogLine("Battery",
                     <<info.batteryLeft, info.batteryRight>> \o info.deviceName)
             /\ batLeft' = <<info.batteryLeft>>
             /\ batRight' = <<info.batteryRight>>
             /\ deviceName' = info.deviceName
             /\ infoCardHidden' = FALSE

\* The handler run on the bytes `value` of the characteristic.
onNotification(value) ==
    /\ IF ~ HasQxwPrefix(value)
       THEN /\ logLast' = LogLine("Unknown packet (no QXW prefix)", <<>>)
            /\ UNCHANGED <<batLeft, batRight, deviceName, infoCardHidden>>
       ELSE LET cmd == rxCmd(value)
            IN  IF cmd = CMD_DEVICE_INFO /\ rxSub(value) = 2
                THEN parseDeviceInfo(rxPayload(value))
                ELSE /\ UNCHANGED <<batLeft, batRight, deviceName, infoCardHidden>>
                     /\ IF cmd = CMD_SELECT_EQ
                        THEN logLast' = LogLine("Preset change confirmed", <<>>)
                        ELSE IF cmd = CMD_CUSTOM_EQ
                        THEN logLast' = LogLine("Custom EQ confirmed", <<>>)
                        ELSE logLast' = LogLine("Unknown command", <<cmd>>)

---------------------------------------------------------------------------
(* The page, the session and the transport *)

Null == "null"

\* The chooser lists two "Fairbuds" entries: the BLE entry that carries the EQ
\* service and the entry that does not.
Devices       == {"eq", "audio"}
HasService(d) == d = "eq"

\* Bounds of the exploration.
MaxEvents    == 3   \* clicks, slider moves, notifications and link drops in one run
MaxEditBand  == 1   \* the sliders of bands 0..MaxEditBand are moved
MaxConnEvents == 5  \* clicks and link drops in a run that leaves the EQ alone

\* The preset numbers of the built-in preset buttons.
PRESET_BUTTONS == {1, 4}

\* Positions the moved sliders are put on (min 0, max 255).
SliderValues == {0, 180}

\* Two of the custom presets: "max10k" and "rtings_studio"; (gain dB, Q) pairs
\* in hundredths.
CUSTOM_PRESETS ==
    << [bands |-> << <<-450, 14>>, <<840, 20>>, <<-780, 51>>, <<60, 393>>,
                     <<-1080, 65>>, <<1350, 39>>, <<-550, 130>>, <<-500, 838>> >>],
       [bands |-> << <<-330, 10>>, <<360, 532>>, <<540, 10>>, <<260, 2495>>,
                     <<-1200, 10>>, <<-180, 1700>>, <<-1010, 170>>, <<1280, 10>> >>] >>

\* Notifications the earbuds send while the program runs.
RxFrames ==
    { <<1, 2, 3>>,
      <<81, 88, 86, 39, 2, 1, 3, 100, 100, 0>>,
      <<81, 88, 87, 16, 3>>,
      <<81, 88, 87, 32, 3, 0>>,
      <<81, 88, 87, 153, 1, 0>>,
      <<81, 88, 87, 39, 1, 0>>,
      <<81, 88, 87, 39, 2, 1, 3>>,
      <<81, 88, 87, 39, 2, 9, 8, 100, 100, 7>>,
      <<81, 88, 87, 39, 2, 1, 3, 100, 100, 0, 5, 72, 101, 108, 108, 111>> }

Task(fn, at, dev, ok, arg) ==
    [fn |-> fn, at |-> at, dev |-> dev, ok |-> ok, arg |-> arg]
One(t)       == SetToBag({t})
Waiting(at)  == {t \in BagToSet(tasks) : t.at = at}
Tick ==
    /\ events < (IF pc = "session" THEN MaxConnEvents ELSE MaxEvents)
    /\ events' = events + 1

\* The awaits of GATT operations on a connected link.
GattWaits == {"getPrimaryService", "getWriteChar", "getNotifyChar",
              "startNotifications", "stopNotifications"}

\* The link of device d goes down: the GATT operations pending on it reject,
\* also when the device is connected again before their promises settle.
LinkLost(d, b) ==
    LET Rejected(t) == IF t.dev = d /\ t.at \in GattWaits
                       THEN [t EXCEPT !.ok = FALSE] ELSE t
    IN  BagOfAll(Rejected, b)

\* The 24 payload bytes sendCustomEQ fills in from the EQ state.
CustomEqPayload(gains, qs) ==
    [k \in 1..(NUM_BANDS * 3) |->
        LET i == (k - 1) \div 3
        IN  CASE (k - 1) % 3 = 0 -> ToUint8(i)
              [] (k - 1) % 3 = 1 -> ToUint8(gains[i + 1])
              [] OTHER           -> ToUint8(qs[i + 1])]

\* The band arrays applyCustomPreset leaves behind.
PresetGains(preset) ==
    [i \in 1..NUM_BANDS |->
        encodeGain(Max(GAIN_MIN_DB, Min(GAIN_MAX_DB, preset.bands[i][1])))]
PresetQs(preset) ==
    [i \in 1..NUM_BANDS |-> encodeQ(preset.bands[i][2])]

\* What the caller of sendCommand logs once sendCommand has returned.
TailLog(fn, arg) ==
    CASE fn = "selectPreset"      -> LogLine("Preset selected", <<arg>>)
      [] fn = "sendCustomEQ"      -> LogLine("Custom EQ applied", <<>>)
      [] fn = "applyCustomPreset" -> LogLine("Custom preset applied", <<arg>>)
      [] OTHER                    -> LogLine("Error: not connected", <<>>)

\* sendCommand(data) called by the async function `t`, the other suspended
\* functions being `rest`.  Without a write characteristic it logs and returns,
\* and the caller runs on to its end.  Otherwise writeValueWithoutResponse is
\* called: the frame goes out when the link is up and the transport accepts it,
\* and the caller waits for the promise.
sendCommand(data, rest, t) ==
    IF writeChar = Null
    THEN /\ logLast' = TailLog(t.fn, t.arg)
         /\ tasks' = rest
         /\ UNCHANGED txVars
    ELSE \E ok \in (IF writeChar \in linkUp THEN BOOLEAN ELSE {FALSE}) :
            /\ logLast' = LogLine("TX", data)
            /\ tasks' = rest (+) One([t EXCEPT !.at = "write", !.ok = ok])
            /\ IF ok
               THEN /\ txLast' = data
                    /\ txCount' = txCount + 1
               ELSE UNCHANGED txVars

requestDeviceInfoPacket == buildPacket(CMD_DEVICE_INFO, TYPE_REQUEST, NoPayload)
selectPresetPacket(presetNum) ==
    buildPacket(CMD_SELECT_EQ, TYPE_REQUEST, Payload(<<ToUint8(presetNum)>>))
sendCustomEQPacket(gains, qs) ==
    buildPacket(CMD_CUSTOM_EQ, TYPE_NOTIFY, Payload(CustomEqPayload(gains, qs)))

\* `const [gainDb, qReal] = preset.bands[i]` throws a TypeError at the first
\* i < NUM_BANDS the band list has no entry for.
PresetThrows(preset) == Len(preset.bands) < NUM_BANDS

\* A faulty variant of applyCustomPreset: the frame is sent from the EQ state
\* as it is before the bands are overwritten.
applyCustomPresetSendFirst(preset, rest, t) ==
    /\ bandGains' = PresetGains(preset)
    /\ bandQs' = PresetQs(preset)
    /\ sendCommand(sendCustomEQPacket(bandGains, bandQs), rest, t)

\* applyCustomPreset(preset) called by the async function `t`.  The loop
\* overwrites band after band; with a short band list it throws after the
\* bands it got to, before updateSlidersFromState and sendCustomEQ.  Entries
\* beyond the eighth are not looked at.
applyCustomPreset(preset, rest, t) ==
    IF PresetThrows(preset)
    THEN LET n == Len(preset.bands)
             head == [bands |-> [i \in 1..NUM_BANDS |->
                                    IF i <= n THEN preset.bands[i] ELSE <<0, 0>>]]
         IN  /\ bandGains' = [i \in 1..NUM_BANDS |->
                                 IF i <= n THEN PresetGains(head)[i] ELSE bandGains[i]]
             /\ bandQs' = [i \in 1..NUM_BANDS |->
                              IF i <= n THEN PresetQs(head)[i] ELSE bandQs[i]]
             /\ tasks' = rest
             /\ UNCHANGED <<logLast, txVars>>
    ELSE /\ bandGains' = PresetGains(preset)
         /\ bandQs' = PresetQs(preset)
         /\ sendCommand(sendCustomEQPacket(bandGains', bandQs'), rest, t)

---------------------------------------------------------------------------
(* Initial state: the script has run to its end on a browser with Web      *)
(* Bluetooth.                                                              *)

InitProgram ==
    /\ device = Null /\ server = Null /\ writeChar = Null /\ notifyChar = Null
    /\ connected = FALSE
    /\ bandGains = [i \in 1..NUM_BANDS |-> GAIN_OFFSET]
    /\ bandQs = [i \in 1..NUM_BANDS |-> DEFAULT_Q]
    /\ statusText = "" /\ statusClass = ""
    /\ connectBtn = [disabled |-> FALSE, shown |-> TRUE]
    /\ disconnectShown = FALSE
    /\ controlsEnabled = FALSE
    /\ cardsShown = FALSE
    /\ linkUp = {} /\ handlers = {} /\ dropListeners = {} /\ pendingDrop = {}
    /\ txLast = <<>> /\ txCount = 0
    /\ tasks = EmptyBag
    /\ events = 0

InitInfo ==
    /\ batLeft = <<>> /\ batRight = <<>> /\ deviceName = <<>>
    /\ infoCardHidden = TRUE
    /\ logLast = LogLine("Ready", <<>>)

\* What the info card shows.
InfoShown == [batLeft |-> batLeft, batRight |-> batRight,
              deviceName |-> deviceName, infoCardHidden |-> infoCardHidden]

NoCall == [op |-> "none", cmd |-> 0, type |-> 0, payload |-> NoPayload,
           value |-> <<>>, num |-> 0, bands |-> <<>>, idx |-> 0,
           eq |-> [gains |-> <<>>, qs |-> <<>>],
           shown |-> [batLeft |-> <<>>, batRight |-> <<>>,
                      deviceName |-> <<>>, infoCardHidden |-> TRUE]]
NoResult == [threw |-> FALSE, bytes |-> <<>>, num |-> 0]

Init ==
    /\ InitProgram
    /\ InitInfo
    /\ pc = "off" /\ callArgs = NoCall /\ callResult = NoResult /\ callBack = 0

---------------------------------------------------------------------------
(* EQ controls *)

\* bandGains[idx] = v on the plain array: an index one past the end appends,
\* any other index outside the array sets a property besides the elements.
SliderStore(gains, idx, v) ==
    IF idx >= 0 /\ idx < Len(gains) THEN [gains EXCEPT ![idx + 1] = v]
    ELSE IF idx = Len(gains) THEN Append(gains, v)
    ELSE gains

\* document.getElementById(`db-val-${idx}`) is null for an index without a
\* slider and setting its textContent throws a TypeError, after the store.
SliderThrows(idx) == ~ (idx >= 0 /\ idx < NUM_BANDS)

\* A slider of the EQ card is moved.
SliderInput ==
    /\ controlsEnabled
    /\ \E idx \in 0..MaxEditBand, v \in SliderValues :
          bandGains' = SliderStore(bandGains, idx, v)
    /\ UNCHANGED <<sessVars, bandQs, pageVars, infoVars, logLast, bleVars,
                   txVars, tasks, callVars>>
    /\ Tick

\* A faulty variant of resetSliders: the gains are reset, the Q bytes are not.
resetSlidersGainsOnly ==
    /\ controlsEnabled
    /\ bandGains' = [i \in 1..NUM_BANDS |-> GAIN_OFFSET]
    /\ logLast' = LogLine("EQ reset to flat", <<>>)
    /\ UNCHANGED <<sessVars, bandQs, pageVars, infoVars, bleVars, txVars, tasks,
                   callVars>>
    /\ Tick

\* "Reset flat" is clicked.
resetSliders ==
    /\ controlsEnabled
    /\ bandGains' = [i \in 1..NUM_BANDS |-> GAIN_OFFSET]
    /\ bandQs' = [i \in 1..NUM_BANDS |-> DEFAULT_Q]
    /\ logLast' = LogLine("EQ reset to flat", <<>>)
    /\ UNCHANGED <<sessVars, pageVars, infoVars, bleVars, txVars, tasks, callVars>>
    /\ Tick

\* A built-in preset button is clicked.
ClickPreset ==
    /\ controlsEnabled
    /\ \E presetNum \in PRESET_BUTTONS :
          IF ~ connected
          THEN UNCHANGED <<logLast, txVars, tasks>>
          ELSE /\ sendCommand(selectPresetPacket(presetNum), tasks,
                              Task("selectPreset", "call", Null, TRUE, presetNum))
    /\ UNCHANGED <<sessVars, eqVars, pageVars, infoVars, bleVars, callVars>>
    /\ Tick

\* "Apply" is clicked.
ClickApply ==
    /\ controlsEnabled
    /\ IF ~ connected
       THEN UNCHANGED <<logLast, txVars, tasks>>
       ELSE /\ sendCommand(sendCustomEQPacket(bandGains, bandQs), tasks,
                           Task("sendCustomEQ", "call", Null, TRUE, 0))
    /\ UNCHANGED <<sessVars, eqVars, pageVars, infoVars, bleVars, callVars>>
    /\ Tick

\* A custom preset button is clicked.
ClickCustomPreset ==
    /\ controlsEnabled
    /\ \E p \in 1..Len(CUSTOM_PRESETS) :
          IF ~ connected
          THEN UNCHANGED <<eqVars, logLast, txVars, tasks>>
          ELSE applyCustomPreset(CUSTOM_PRESETS[p], tasks,
                                 Task("applyCustomPreset", "call", Null, TRUE, p))
    /\ UNCHANGED <<sessVars, pageVars, infoVars, bleVars, callVars>>
    /\ Tick

\* The promise of writeValueWithoutResponse settles.
WriteSettled ==
    \E t \in Waiting("write") :
       IF t.ok
       THEN /\ tasks' = (tasks (-) One(t)) (+) One([t EXCEPT !.at = "delay"])
            /\ UNCHANGED <<sessVars, eqVars, pageVars, infoVars, logLast,
                           bleVars, txVars, callVars, events>>
       ELSE /\ tasks' = tasks (-) One(t)
            /\ IF t.fn = "connect"
               THEN /\ logLast' = LogLine("Connection error", <<>>)
                    /\ statusText' = "Error"
                    /\ statusClass' = "error"
                    /\ connectBtn' = [connectBtn EXCEPT !.disabled = FALSE]
                    /\ connected' = FALSE
                    /\ UNCHANGED <<device, server, writeChar, notifyChar,
                                   disconnectShown, controlsEnabled, cardsShown>>
               ELSE UNCHANGED <<sessVars, pageVars, logLast>>
            /\ UNCHANGED <<eqVars, infoVars, bleVars, txVars, callVars, events>>

\* The post-command delay ends and the caller of sendCommand runs on.
DelayDone ==
    \E t \in Waiting("delay") :
       /\ t.fn # "disconnect"
       /\ tasks' = tasks (-) One(t)
       /\ IF t.fn = "connect"
          THEN UNCHANGED logLast
          ELSE logLast' = TailLog(t.fn, t.arg)
       /\ UNCHANGED <<sessVars, eqVars, pageVars, infoVars, bleVars, txVars,
                      callVars, events>>

---------------------------------------------------------------------------
(* Connection *)

\* How connect() ends when connectToDevice returned false.
WrongDevice ==
    /\ logLast' = LogLine("That Fairbuds entry didn't have the EQ service", <<>>)
    /\ statusText' = "Wrong device"
    /\ statusClass' = "error"

\* Variant of ShowDisconnected that reports the disconnection as an error.
ShowDisconnectedAsError ==
    /\ statusText' = "Error"
    /\ statusClass' = "error"
    /\ connectBtn' = [disabled |-> FALSE, shown |-> TRUE]
    /\ disconnectShown' = FALSE

\* What onDisconnected leaves on the page.
ShowDisconnected ==
    /\ statusText' = "Disconnected"
    /\ statusClass' = ""
    /\ connectBtn' = [disabled |-> FALSE, shown |-> TRUE]
    /\ disconnectShown' = FALSE

cleanup ==
    /\ connected' = FALSE
    /\ writeChar' = Null
    /\ notifyChar' = Null
    /\ server' = Null
    /\ controlsEnabled' = FALSE

\* "Connect" is clicked: connect() runs up to the device chooser.
ClickConnect ==
    /\ connectBtn.shown /\ ~ connectBtn.disabled
    /\ connectBtn' = [connectBtn EXCEPT !.disabled = TRUE]
    /\ statusText' = "Scanning"
    /\ statusClass' = ""
    /\ logLast' = LogLine("Requesting Bluetooth device", <<>>)
    /\ tasks' = tasks (+) One(Task("connect", "requestDevice", Null, TRUE, 0))
    /\ UNCHANGED <<sessVars, eqVars, disconnectShown, controlsEnabled,
                   cardsShown, infoVars, bleVars, txVars, callVars>>
    /\ Tick

\* The user picks an entry: connectToDevice runs up to gatt.connect().
DevicePicked ==
    \E t \in Waiting("requestDevice"), dev \in Devices :
       /\ device' = dev
       /\ dropListeners' = dropListeners \cup {dev}
       /\ logLast' = LogLine("Trying device", <<>>)
       /\ statusText' = "Connecting"
       /\ tasks' = (tasks (-) One(t))
                   (+) One([t EXCEPT !.at = "gattConnect", !.dev = dev])
       /\ UNCHANGED <<server, writeChar, notifyChar, connected, eqVars,
                      statusClass, connectBtn, disconnectShown, controlsEnabled,
                      cardsShown, infoVars, linkUp, handlers, pendingDrop,
                      txVars, callVars>>
       /\ UNCHANGED events

\* The chooser is dismissed: requestDevice rejects and connect() catches it.
ChooserCancelled ==
    \E t \in Waiting("requestDevice") :
       /\ logLast' = LogLine("Connection error", <<>>)
       /\ statusText' = "Error"
       /\ statusClass' = "error"
       /\ connectBtn' = [connectBtn EXCEPT !.disabled = FALSE]
       /\ connected' = FALSE
       /\ tasks' = tasks (-) One(t)
       /\ UNCHANGED <<device, server, writeChar, notifyChar, eqVars,
                      disconnectShown, controlsEnabled, cardsShown, infoVars,
                      bleVars, txVars, callVars>>
       /\ UNCHANGED events

\* gatt.connect() resolves: the link is up and service discovery starts.
GattConnected ==
    \E t \in Waiting("gattConnect") :
       /\ linkUp' = linkUp \cup {t.dev}
       /\ server' = t.dev
       /\ logLast' = LogLine("GATT server connected", <<>>)
       /\ tasks' = (tasks (-) One(t)) (+) One([t EXCEPT !.at = "getPrimaryService"])
       /\ UNCHANGED <<device, writeChar, notifyChar, connected, eqVars, pageVars,
                      infoVars, handlers, dropListeners, pendingDrop, txVars,
                      callVars, events>>

\* gatt.connect() rejects: cleanup, and connect() reports the wrong device.
GattConnectFailed ==
    \E t \in Waiting("gattConnect") :
       /\ cleanup
       /\ WrongDevice
       /\ connectBtn' = [connectBtn EXCEPT !.disabled = FALSE]
       /\ tasks' = tasks (-) One(t)
       /\ UNCHANGED <<device, eqVars, disconnectShown, cardsShown, infoVars,
                      bleVars, txVars, callVars>>
       /\ UNCHANGED events

\* getPrimaryService resolves.
ServiceObtained ==
    \E t \in Waiting("getPrimaryService") :
       /\ t.ok /\ t.dev \in linkUp /\ HasService(t.dev)
       /\ logLast' = LogLine("Service obtained", <<>>)
       /\ tasks' = (tasks (-) One(t)) (+) One([t EXCEPT !.at = "getWriteChar"])
       /\ UNCHANGED <<sessVars, eqVars, pageVars, infoVars, bleVars, txVars,
                      callVars, events>>

\* getCharacteristic(WRITE_UUID) resolves.
WriteCharObtained ==
    \E t \in Waiting("getWriteChar") :
       /\ t.ok /\ t.dev \in linkUp /\ HasService(t.dev)
       /\ writeChar' = t.dev
       /\ tasks' = (tasks (-) One(t)) (+) One([t EXCEPT !.at = "getNotifyChar"])
       /\ UNCHANGED <<device, server, notifyChar, connected, eqVars, pageVars,
                      infoVars, logLast, bleVars, txVars, callVars, events>>

\* getCharacteristic(NOTIFY_UUID) resolves and startNotifications is called.
NotifyCharObtained ==
    \E t \in Waiting("getNotifyChar") :
       /\ t.ok /\ t.dev \in linkUp /\ HasService(t.dev)
       /\ notifyChar' = t.dev
       /\ logLast' = LogLine("Characteristics obtained", <<>>)
       /\ tasks' = (tasks (-) One(t)) (+) One([t EXCEPT !.at = "startNotifications"])
       /\ UNCHANGED <<device, server, writeChar, connected, eqVars, pageVars,
                      infoVars, bleVars, txVars, callVars, events>>

\* The catch block of connectToDevice and the rest of connect() after it.
\* server.disconnect() is tried on the global handle; when that link is up it
\* goes down and gattserverdisconnected is dispatched, either inside the call
\* (`sync`) or as a queued event.
ServiceError(t, sync) ==
    LET up == server # Null /\ server \in linkUp
    IN  /\ cleanup
        /\ WrongDevice
        /\ IF up
           THEN /\ linkUp' = linkUp \ {server}
                /\ handlers' = handlers \ {server}
                /\ tasks' = LinkLost(server, tasks (-) One(t))
           ELSE /\ tasks' = tasks (-) One(t)
                /\ UNCHANGED <<linkUp, handlers>>
        /\ IF up /\ sync /\ server \in dropListeners
           THEN /\ connectBtn' = [disabled |-> FALSE, shown |-> TRUE]
                /\ disconnectShown' = FALSE
                /\ UNCHANGED pendingDrop
           ELSE /\ connectBtn' = [connectBtn EXCEPT !.disabled = FALSE]
                /\ UNCHANGED disconnectShown
                /\ pendingDrop' = IF up /\ server \in dropListeners
                                  THEN pendingDrop \cup {server}
                                  ELSE pendingDrop
        /\ UNCHANGED <<device, eqVars, cardsShown, infoVars, dropListeners,
                       txVars, callVars>>

\* The service lookup, a characteristic lookup or startNotifications rejects.
DiscoveryFailed ==
    \E t \in Waiting("getPrimaryService") \cup Waiting("getWriteChar")
             \cup Waiting("getNotifyChar") \cup Waiting("startNotifications"),
       sync \in BOOLEAN :
       /\ ServiceError(t, sync)
       /\ UNCHANGED events

\* startNotifications resolves: the handler is registered, connect() shows the
\* session as connected and requests the device info.
NotificationsStarted ==
    \E t \in Waiting("startNotifications") :
       /\ t.ok /\ t.dev \in linkUp
       /\ notifyChar # Null
       /\ handlers' = handlers \cup ({notifyChar} \cap linkUp)
       /\ connected' = TRUE
       /\ statusText' = "Connected"
       /\ statusClass' = "connected"
       /\ connectBtn' = [disabled |-> FALSE, shown |-> FALSE]
       /\ disconnectShown' = TRUE
       /\ cardsShown' = TRUE
       /\ controlsEnabled' = TRUE
       /\ sendCommand(requestDeviceInfoPacket, tasks (-) One(t), t)
       /\ UNCHANGED <<device, server, writeChar, notifyChar, eqVars, infoVars,
                      linkUp, dropListeners, pendingDrop, callVars, events>>

\* startNotifications resolves after cleanup cleared notifyChar: addEventListener
\* throws on null and the catch block runs.
NotificationsStartedOnNull ==
    \E t \in Waiting("startNotifications"), sync \in BOOLEAN :
       /\ t.ok /\ t.dev \in linkUp
       /\ notifyChar = Null
       /\ ServiceError(t, sync)
       /\ UNCHANGED events

---------------------------------------------------------------------------
(* Disconnection *)

\* "Disconnect" is clicked: disconnect() runs up to its first await.
ClickDisconnect ==
    /\ disconnectShown
    /\ IF notifyChar # Null
       THEN /\ handlers' = handlers \ {notifyChar}
            /\ tasks' = tasks (+) One(Task("disconnect", "stopNotifications",
                                            notifyChar, TRUE, 0))
       ELSE /\ tasks' = tasks (+) One(Task("disconnect", "delay", Null, TRUE, 0))
            /\ UNCHANGED handlers
    /\ UNCHANGED <<sessVars, eqVars, pageVars, infoVars, logLast, linkUp,
                   dropListeners, pendingDrop, txVars, callVars>>
    /\ Tick

\* stopNotifications resolves.
NotificationsStopped ==
    \E t \in Waiting("stopNotifications") :
       /\ t.ok /\ t.dev \in linkUp
       /\ logLast' = LogLine("Notifications stopped", <<>>)
       /\ tasks' = (tasks (-) One(t)) (+) One([t EXCEPT !.at = "delay"])
       /\ UNCHANGED <<sessVars, eqVars, pageVars, infoVars, bleVars, txVars,
                      callVars, events>>

\* stopNotifications rejects: disconnect() logs the error and skips to cleanup.
StopNotificationsFailed ==
    \E t \in Waiting("stopNotifications") :
       /\ logLast' = LogLine("Disconnect error", <<>>)
       /\ cleanup
       /\ ShowDisconnected
       /\ tasks' = tasks (-) One(t)
       /\ UNCHANGED <<device, eqVars, cardsShown, infoVars, bleVars, txVars,
                      callVars>>
       /\ UNCHANGED events

\* Variant of DisconnectDelayDone without the `server && server.connected`
\* guard: server.disconnect() on a cleared handle throws and the catch block
\* logs the error.
DisconnectDelayDoneUnguarded ==
    \E t \in Waiting("delay"), sync \in BOOLEAN :
       /\ t.fn = "disconnect"
       /\ LET up == server # Null /\ server \in linkUp
              ev == up /\ server \in dropListeners
          IN  /\ IF up
                 THEN /\ linkUp' = linkUp \ {server}
                      /\ handlers' = handlers \ {server}
                      /\ logLast' = LogLine("Disconnected", <<>>)
                      /\ tasks' = LinkLost(server, tasks (-) One(t))
                 ELSE /\ tasks' = tasks (-) One(t)
                      /\ logLast' = IF server = Null
                                    THEN LogLine("Disconnect error", <<>>)
                                    ELSE LogLine("Disconnected", <<>>)
                      /\ UNCHANGED <<linkUp, handlers>>
              /\ pendingDrop' = IF ev /\ ~ sync THEN pendingDrop \cup {server}
                                ELSE pendingDrop
       /\ cleanup
       /\ ShowDisconnected
       /\ UNCHANGED <<device, eqVars, cardsShown, infoVars, dropListeners,
                      txVars, callVars, events>>

\* The 300 ms of disconnect() are over: the link is released when the server
\* handle is still there and connected, then cleanup.
DisconnectDelayDone ==
    \E t \in Waiting("delay"), sync \in BOOLEAN :
       /\ t.fn = "disconnect"
       /\ LET up == server # Null /\ server \in linkUp
              ev == up /\ server \in dropListeners
          IN  /\ IF up
                 THEN /\ linkUp' = linkUp \ {server}
                      /\ handlers' = handlers \ {server}
                      /\ logLast' = LogLine("Disconnected", <<>>)
                      /\ tasks' = LinkLost(server, tasks (-) One(t))
                 ELSE /\ tasks' = tasks (-) One(t)
                      /\ UNCHANGED <<linkUp, handlers, logLast>>
              /\ pendingDrop' = IF ev /\ ~ sync THEN pendingDrop \cup {server}
                                ELSE pendingDrop
       /\ cleanup
       /\ ShowDisconnected
       /\ UNCHANGED <<device, eqVars, cardsShown, infoVars, dropListeners,
                      txVars, callVars, events>>

\* The link of a device drops (out of range, powered off).
LinkDrop ==
    \E d \in linkUp :
       /\ linkUp' = linkUp \ {d}
       /\ handlers' = handlers \ {d}
       /\ pendingDrop' = IF d \in dropListeners THEN pendingDrop \cup {d}
                         ELSE pendingDrop
       /\ tasks' = LinkLost(d, tasks)
       /\ UNCHANGED <<sessVars, eqVars, pageVars, infoVars, logLast,
                      dropListeners, txVars, callVars>>
       /\ Tick

\* A queued gattserverdisconnected event is handled.
onDisconnected ==
    \E d \in pendingDrop :
       /\ pendingDrop' = pendingDrop \ {d}
       /\ logLast' = LogLine("Device disconnected", <<>>)
       /\ cleanup
       /\ ShowDisconnected
       /\ UNCHANGED <<device, eqVars, cardsShown, infoVars, linkUp, handlers,
                      dropListeners, txVars, tasks, callVars, events>>

\* Variant of Notify in which the handler also puts the EQ state back to flat.
NotifyResetsEq ==
    /\ \E d \in handlers \cap linkUp, value \in RxFrames : onNotification(value)
    /\ bandGains' = [i \in 1..NUM_BANDS |-> GAIN_OFFSET]
    /\ bandQs' = [i \in 1..NUM_BANDS |-> DEFAULT_Q]
    /\ UNCHANGED <<sessVars, pageVars, bleVars, txVars, tasks, callVars>>
    /\ Tick

\* The earbuds notify and the registered handler runs.
Notify ==
    /\ \E d \in handlers \cap linkUp, value \in RxFrames : onNotification(value)
    /\ UNCHANGED <<sessVars, eqVars, pageVars, bleVars, txVars, tasks, callVars>>
    /\ Tick

Next ==
    \/ SliderInput \/ resetSliders \/ ClickPreset \/ ClickApply
    \/ ClickCustomPreset \/ WriteSettled \/ DelayDone
    \/ ClickConnect \/ DevicePicked \/ ChooserCancelled
    \/ GattConnected \/ GattConnectFailed
    \/ ServiceObtained \/ WriteCharObtained \/ NotifyCharObtained
    \/ DiscoveryFailed \/ NotificationsStarted \/ NotificationsStartedOnNull
    \/ ClickDisconnect \/ NotificationsStopped \/ StopNotificationsFailed
    \/ DisconnectDelayDone \/ LinkDrop \/ onDisconnected \/ Notify

Spec == Init /\ [][Next]_vars

\* The connection handling on its own: the user only connects and disconnects,
\* the earbuds send nothing, and the run may be longer.
InitConn ==
    /\ InitProgram
    /\ InitInfo
    /\ pc = "session" /\ callArgs = NoCall /\ callResult = NoResult /\ callBack = 0

NextConn ==
    \/ WriteSettled \/ DelayDone
    \/ ClickConnect \/ DevicePicked \/ ChooserCancelled
    \/ GattConnected \/ GattConnectFailed
    \/ ServiceObtained \/ WriteCharObtained \/ NotifyCharObtained
    \/ DiscoveryFailed \/ NotificationsStarted \/ NotificationsStartedOnNull
    \/ ClickDisconnect \/ NotificationsStopped \/ StopNotificationsFailed
    \/ DisconnectDelayDone \/ LinkDrop \/ onDisconnected

SpecConn == InitConn /\ [][NextConn]_vars

\* The whole program with its own pending steps taken: the promise of a write
\* settles and the post-command timer fires.  What the user and the earbuds do
\* is left open.
SpecLive == Spec /\ WF_vars(WriteSettled) /\ WF_vars(DelayDone)

---------------------------------------------------------------------------
(* Direct calls of the helpers: buildPacket, onNotification, encodeGain,   *)
(* decodeGain and the Q encoding, each on arguments drawn from the sets    *)
(* below, followed by the inverse helper where there is one.               *)

MaxPayloadLen == 2      \* every payload up to this length over PayloadBytes
GainSpan      == 2000   \* gains of -GainSpan..GainSpan hundredths of a dB
QSpan         == 2600   \* Q factors of 0..QSpan hundredths

RECURSIVE SeqsUpTo(_, _)
SeqsUpTo(S, n) ==
    IF n = 0 THEN {<<>>}
    ELSE LET shorter == SeqsUpTo(S, n - 1)
         IN  shorter \cup {Append(q, x) : q \in shorter, x \in S}

CodecCmds    == {0, CMD_SELECT_EQ, CMD_CUSTOM_EQ, CMD_DEVICE_INFO, 153, 255}
CodecTypes   == {0, TYPE_REQUEST, 2, TYPE_NOTIFY}
PayloadBytes == {0, 2, 72, 255}
CodecPayloads ==
    {NoPayload}
    \cup {Payload(q) : q \in SeqsUpTo(PayloadBytes, MaxPayloadLen)}
    \cup {Payload(Fill(n, 7)) : n \in {24, 255, 256, 300}}
    \cup {Payload(q) : q \in
            { <<4>>,
              CustomEqPayload([i \in 1..NUM_BANDS |-> GAIN_OFFSET],
                              [i \in 1..NUM_BANDS |-> DEFAULT_Q]),
              <<1, 3, 100, 100, 0>>,
              <<1, 3, 100, 100, 0, 5, 72, 101, 108, 108, 111>> }}

RxHeads  == {q \in SeqsUpTo({0, 81, 87, 88}, 3) : Len(q) = 3}
RxBodies ==
    { <<>>, <<0>>, <<5>>, <<1, 3, 100, 100>>, <<1, 3, 100, 100, 0>>,
      <<1, 3, 77, 88, 0, 5, 72, 101, 108, 108, 111>>,
      <<1, 3, 100, 100, 0, 2, 65, 66, 1, 67>>,
      <<5, 1, 3, 200, 250, 0, 0, 3, 65, 31, 66>>,
      <<1, 3, 100, 100, 0, 5, 72, 101, 108, 108, 111>>,
      <<9, 8, 100, 100, 7>>,
      <<1, 3, 50, 60, 0, 31>> \o Fill(31, 65),
      <<1, 3, 50, 60, 0, 32>> \o Fill(32, 65),
      <<1, 3, 50, 60, 0, 4, 65, 66, 67, 127>>,
      <<1, 3, 50, 60, 0, 2, 65, 66, 3, 32, 33, 126>> }
RxTails  ==
    {<<>>}
    \cup {<<c>> : c \in {0, CMD_SELECT_EQ, CMD_CUSTOM_EQ, CMD_DEVICE_INFO, 153}}
    \cup {<<c, t>> \o b : c \in {0, CMD_SELECT_EQ, CMD_CUSTOM_EQ, CMD_DEVICE_INFO, 153},
                          t \in {TYPE_REQUEST, 2, TYPE_NOTIFY}, b \in RxBodies}
RxValues ==
    {<<>>, <<81>>, <<81, 88>>} \cup {h \o t : h \in RxHeads, t \in RxTails}

\* What the info card may show when a notification arrives: nothing yet, or
\* the last device info.
InfoSamples ==
    { [batLeft |-> <<>>, batRight |-> <<>>, deviceName |-> <<>>,
       infoCardHidden |-> TRUE],
      [batLeft |-> <<55>>, batRight |-> <<66>>, deviceName |-> <<70, 66>>,
       infoCardHidden |-> FALSE] }

\* EQ states the direct calls start from: the default one and a preset.
EqSamples ==
    { [gains |-> [i \in 1..NUM_BANDS |-> GAIN_OFFSET],
       qs    |-> [i \in 1..NUM_BANDS |-> DEFAULT_Q]],
      [gains |-> PresetGains(CUSTOM_PRESETS[1]),
       qs    |-> PresetQs(CUSTOM_PRESETS[1])] }

\* Band lists handed to applyCustomPreset: a preset of the table, that list
\* cut short and extended, and lists beyond the gain and Q range.
PresetSamples ==
    LET b == CUSTOM_PRESETS[2].bands
    IN  {SubSeq(b, 1, k) : k \in {0, 1, 7, 8}}
        \cup {b \o << <<100, 71>> >>}
        \cup {[i \in 1..NUM_BANDS |-> <<2000, 3000>>],
              [i \in 1..NUM_BANDS |-> <<-2000, 0>>]}

\* Band indices the slider handler is called with.
SliderIndices == -1..NUM_BANDS

\* Preset numbers selectPreset is called with: the four presets, their
\* neighbours, a negative number and one beyond a byte.
PresetNumbers == (-1..5) \cup {257}

\* The program once connect() has run to its end on the entry with the EQ
\* service, the EQ state being (gains, qs).
ReadySession(gains, qs) ==
    /\ device = "eq" /\ server = "eq" /\ writeChar = "eq" /\ notifyChar = "eq"
    /\ connected = TRUE
    /\ bandGains = gains /\ bandQs = qs
    /\ statusText = "Connected" /\ statusClass = "connected"
    /\ connectBtn = [disabled |-> FALSE, shown |-> FALSE]
    /\ disconnectShown = TRUE
    /\ controlsEnabled = TRUE
    /\ cardsShown = TRUE
    /\ linkUp = {"eq"} /\ handlers = {"eq"} /\ dropListeners = {"eq"}
    /\ pendingDrop = {}
    /\ txLast = requestDeviceInfoPacket /\ txCount = 1
    /\ tasks = EmptyBag
    /\ events = 1

SessionOps == {"applyCustomPreset", "sliderInput", "selectPreset"}

Calls ==
    {[NoCall EXCEPT !.op = "buildPacket", !.cmd = c, !.type = t, !.payload = p] :
        c \in CodecCmds, t \in CodecTypes, p \in CodecPayloads}
    \cup {[NoCall EXCEPT !.op = "onNotification", !.value = v] : v \in RxValues}
    \cup {[NoCall EXCEPT !.op = "encodeGain", !.num = n] : n \in (-GainSpan)..GainSpan}
    \cup {[NoCall EXCEPT !.op = "decodeGain", !.num = n] : n \in 0..255}
    \cup {[NoCall EXCEPT !.op = "encodeQ", !.num = n] : n \in 0..QSpan}
    \cup {[NoCall EXCEPT !.op = "applyCustomPreset", !.bands = b, !.eq = e] :
            b \in PresetSamples, e \in EqSamples}
    \cup {[NoCall EXCEPT !.op = "sliderInput", !.idx = i, !.num = v, !.eq = e] :
            i \in SliderIndices, v \in SliderValues, e \in EqSamples}
    \cup {[NoCall EXCEPT !.op = "selectPreset", !.num = n, !.eq = e] :
            n \in PresetNumbers, e \in EqSamples}

InitFn ==
    /\ logLast = LogLine("Ready", <<>>)
    /\ \E c \in Calls, shown \in InfoSamples :
          /\ callArgs = [c EXCEPT !.shown = shown]
          /\ IF c.op \in SessionOps
             THEN ReadySession(c.eq.gains, c.eq.qs)
             ELSE InitProgram
          /\ batLeft = shown.batLeft
          /\ batRight = shown.batRight
          /\ deviceName = shown.deviceName
          /\ infoCardHidden = shown.infoCardHidden
    /\ pc = "ready" /\ callResult = NoResult /\ callBack = 0

programVars == <<sessVars, eqVars, pageVars, bleVars, txVars, tasks, events>>

CallBuildPacket ==
    /\ pc = "ready" /\ callArgs.op = "buildPacket"
    /\ callResult' = [NoResult EXCEPT !.bytes =
                         buildPacket(callArgs.cmd, callArgs.type, callArgs.payload)]
    /\ pc' = "called"
    /\ UNCHANGED <<programVars, infoVars, logLast, callArgs, callBack>>

\* The frame just built is handed to the notification handler.
DecodeBuilt ==
    /\ pc = "called" /\ callArgs.op = "buildPacket"
    /\ onNotification(callResult.bytes)
    /\ pc' = "returned"
    /\ UNCHANGED <<programVars, callArgs, callResult, callBack>>

CallOnNotification ==
    /\ pc = "ready" /\ callArgs.op = "onNotification"
    /\ onNotification(callArgs.value)
    /\ pc' = "returned"
    /\ UNCHANGED <<programVars, callArgs, callResult, callBack>>

CallEncodeGain ==
    /\ pc = "ready" /\ callArgs.op = "encodeGain"
    /\ callResult' = [NoResult EXCEPT !.num = encodeGain(callArgs.num)]
    /\ pc' = "called"
    /\ UNCHANGED <<programVars, infoVars, logLast, callArgs, callBack>>

DecodeEncoded ==
    /\ pc = "called" /\ callArgs.op = "encodeGain"
    /\ callBack' = decodeGain(callResult.num)
    /\ pc' = "returned"
    /\ UNCHANGED <<programVars, infoVars, logLast, callArgs, callResult>>

CallDecodeGain ==
    /\ pc = "ready" /\ callArgs.op = "decodeGain"
    /\ callResult' = [NoResult EXCEPT !.num = decodeGain(callArgs.num)]
    /\ pc' = "called"
    /\ UNCHANGED <<programVars, infoVars, logLast, callArgs, callBack>>

EncodeDecoded ==
    /\ pc = "called" /\ callArgs.op = "decodeGain"
    /\ callBack' = encodeGain(callResult.num)
    /\ pc' = "returned"
    /\ UNCHANGED <<programVars, infoVars, logLast, callArgs, callResult>>

CallEncodeQ ==
    /\ pc = "ready" /\ callArgs.op = "encodeQ"
    /\ callResult' = [NoResult EXCEPT !.num = encodeQ(callArgs.num)]
    /\ pc' = "returned"
    /\ UNCHANGED <<programVars, infoVars, logLast, callArgs, callBack>>

\* applyCustomPreset is called on a band list while the session is ready.
CallApplyCustomPreset ==
    /\ pc = "ready" /\ callArgs.op = "applyCustomPreset"
    /\ applyCustomPreset([bands |-> callArgs.bands], tasks,
                         Task("applyCustomPreset", "call", Null, TRUE, 0))
    /\ callResult' = [NoResult EXCEPT
                         !.threw = PresetThrows([bands |-> callArgs.bands])]
    /\ pc' = "returned"
    /\ UNCHANGED <<sessVars, pageVars, infoVars, bleVars, events, callArgs,
                   callBack>>

\* The slider input listener runs for a band index and a slider position.
CallSliderInput ==
    /\ pc = "ready" /\ callArgs.op = "sliderInput"
    /\ bandGains' = SliderStore(bandGains, callArgs.idx, callArgs.num)
    /\ callResult' = [NoResult EXCEPT !.threw = SliderThrows(callArgs.idx)]
    /\ pc' = "returned"
    /\ UNCHANGED <<sessVars, bandQs, pageVars, infoVars, logLast, bleVars,
                   txVars, tasks, events, callArgs, callBack>>

\* selectPreset is called on a preset number while the session is ready.
CallSelectPreset ==
    /\ pc = "ready" /\ callArgs.op = "selectPreset"
    /\ sendCommand(selectPresetPacket(callArgs.num), tasks,
                   Task("selectPreset", "call", Null, TRUE, callArgs.num))
    /\ pc' = "returned"
    /\ UNCHANGED <<sessVars, eqVars, pageVars, infoVars, bleVars, events,
                   callArgs, callResult, callBack>>

NextFn ==
    \/ CallBuildPacket \/ DecodeBuilt \/ CallOnNotification
    \/ CallEncodeGain \/ DecodeEncoded \/ CallDecodeGain \/ EncodeDecoded
    \/ CallEncodeQ \/ CallApplyCustomPreset \/ CallSliderInput
    \/ CallSelectPreset

SpecFn == InitFn /\ [][NextFn]_vars

---------------------------------------------------------------------------
(* Properties of the packet codec (checked under SpecFn) *)

ArgLen   == IF callArgs.payload.present THEN Len(callArgs.payload.bytes) ELSE 0
ArgBytes == IF callArgs.payload.present THEN callArgs.payload.bytes ELSE <<>>
Built    == callArgs.op = "buildPacket" /\ pc # "ready"
Decoded  == callArgs.op = "buildPacket" /\ pc = "returned"
Handled  == callArgs.op = "onNotification" /\ pc = "returned"
WellPrefixed(v) ==
    Len(v) >= 5 /\ \A i \in 1..3 : v[i] = <<81, 88, 87>>[i]
UnknownPacket == LogLine("Unknown packet (no QXW prefix)", <<>>)

\* C1: for every command byte, type byte and payload of 0..255 bytes (absent
\* counts as empty) buildPacket returns 51 58 57, command, type, the payload
\* length and then the payload unchanged: 6 + len bytes, byte 5 the length.
C1_BuildPacketLayout ==
    (Built /\ ArgLen <= 255) =>
        LET f == callResult.bytes
        IN  /\ ~ callResult.threw
            /\ Len(f) = 6 + ArgLen
            /\ f[1] = 81 /\ f[2] = 88 /\ f[3] = 87
            /\ f[4] = callArgs.cmd
            /\ f[5] = callArgs.type
            /\ f[6] = ArgLen
            /\ \A i \in 1..ArgLen : f[6 + i] = ArgBytes[i]

C1_Witness ==
    /\ Built /\ ArgLen = 255 /\ callArgs.cmd = CMD_CUSTOM_EQ
    /\ Len(callResult.bytes) = 261 /\ callResult.bytes[6] = 255

\* C2: encoding a payload longer than 255 bytes fails and builds no frame, so
\* that no frame is produced whose length byte differs from its payload length.
C2_LongPayloadRejected ==
    Built =>
        IF ArgLen > 255
        THEN callResult.threw
        ELSE ~ callResult.threw
             /\ callResult.bytes[6] = Len(callResult.bytes) - 6

\* C3: an inbound byte sequence of fewer than 5 bytes, or whose first three
\* bytes are not 51 58 57, is reported as an unknown packet and leaves the
\* shown device info alone: no device info, no preset or custom-EQ confirmation.
C3_BadPrefixUnrecognized ==
    (Handled /\ ~ WellPrefixed(callArgs.value)) =>
        /\ logLast = UnknownPacket
        /\ InfoShown = callArgs.shown

C3_Witness ==
    /\ Handled
    /\ callArgs.value = <<0, 88, 87, 39, 2, 1, 3, 77, 88, 0, 5, 72, 101, 108, 108, 111>>
    /\ callArgs.shown.batLeft = <<55>>
    /\ logLast = UnknownPacket

\* C4: a well-prefixed frame of at least 5 bytes is classified by byte 3 alone
\* for the acknowledgements: 0x10 is a preset confirmation and 0x20 a custom-EQ
\* confirmation whatever follows, and a code other than 0x10, 0x20 and 0x27 is
\* reported as an unknown command carrying that code.
C4_ClassifiedByCommand ==
    (Handled /\ WellPrefixed(callArgs.value)) =>
        LET code == callArgs.value[4]
        IN  /\ code = 16 => /\ logLast = LogLine("Preset change confirmed", <<>>)
                            /\ InfoShown = callArgs.shown
            /\ code = 32 => /\ logLast = LogLine("Custom EQ confirmed", <<>>)
                            /\ InfoShown = callArgs.shown
            /\ code \notin {16, 32, 39} =>
                            /\ logLast = LogLine("Unknown command", <<code>>)
                            /\ InfoShown = callArgs.shown

C4_Witness ==
    /\ Handled
    /\ callArgs.value = <<81, 88, 87, 153, 1, 0>>
    /\ logLast = LogLine("Unknown command", <<153>>)

\* C5: a well-prefixed frame with command 0x27 is parsed as device info iff
\* byte 4 is 0x02, the info payload then being the bytes from offset 5 to the
\* end; with any other byte 4 nothing shown changes.
C5_DeviceInfoNeedsSubCode ==
    (Handled /\ WellPrefixed(callArgs.value) /\ callArgs.value[4] = 39) =>
        LET v == callArgs.value
        IN  IF v[5] = 2
            THEN IF Len(v) - 5 >= 5
                 THEN /\ batLeft = <<v[8]>>
                      /\ batRight = <<v[9]>>
                      /\ deviceName = ScanName(SubSeq(v, 6, Len(v)), Len(v) - 6)
                      /\ infoCardHidden = FALSE
                      /\ logLast = LogLine("Battery", <<v[8], v[9]>> \o deviceName)
                 ELSE /\ logLast = LogLine("Device info payload too short", <<>>)
                      /\ InfoShown = callArgs.shown
            ELSE /\ logLast = LogLine("Unknown command", <<39>>)
                 /\ InfoShown = callArgs.shown

C5_Witness ==
    /\ Handled
    /\ callArgs.value = <<81, 88, 87, 39, 2, 1, 3, 77, 88, 0, 5, 72, 101, 108, 108, 111>>
    /\ callArgs.shown.batLeft = <<55>>
    /\ batLeft = <<77>> /\ batRight = <<88>>
    /\ deviceName = <<72, 101, 108, 108, 111>>

\* C6 as stated: decoding the bytes built from (cmd, type, payload), payload of
\* at most 255 bytes, gives back cmd, type and payload exactly; a device-info
\* frame then shows the batteries of that payload.
C6_RoundTripExact ==
    (Decoded /\ ArgLen <= 255) =>
        LET f == callResult.bytes
        IN  /\ logLast # UnknownPacket
            /\ rxCmd(f) = callArgs.cmd
            /\ rxSub(f) = callArgs.type
            /\ rxPayload(f) = ArgBytes
            /\ (callArgs.cmd = 39 /\ callArgs.type = 2 /\ ArgLen >= 5) =>
                  /\ batLeft = <<ArgBytes[3]>>
                  /\ batRight = <<ArgBytes[4]>>

\* C6 amended: the handler gets back cmd (byte 3) and type (byte 4) of a built
\* frame, but the info payload it reads starts at offset 5: it is the length
\* byte followed by the payload.  A built frame is never an unknown packet; it
\* is a preset confirmation for 0x10, a custom-EQ confirmation for 0x20, device
\* info read one byte early for 0x27 with type 2, and an unknown command
\* otherwise (the program's own DeviceInfo request included).
C6_RoundTripShifted ==
    (Decoded /\ ArgLen <= 255) =>
        LET f == callResult.bytes
            c == callArgs.cmd
        IN  /\ logLast # UnknownPacket
            /\ f[4] = c
            /\ f[5] = callArgs.type
            /\ rxPayload(f) = <<ArgLen>> \o ArgBytes
            /\ c = 16 => logLast = LogLine("Preset change confirmed", <<>>)
            /\ c = 32 => logLast = LogLine("Custom EQ confirmed", <<>>)
            /\ (c = 39 /\ callArgs.type = 2 /\ ArgLen >= 4) =>
                  /\ batLeft = <<ArgBytes[2]>>
                  /\ batRight = <<ArgBytes[3]>>
            /\ (c = 39 /\ callArgs.type = 2 /\ ArgLen < 4) =>
                  logLast = LogLine("Device info payload too short", <<>>)
            /\ (c \notin {16, 32} /\ ~ (c = 39 /\ callArgs.type = 2)) =>
                  logLast = LogLine("Unknown command", <<c>>)

C6_Witness ==
    /\ Decoded
    /\ callArgs.cmd = 39 /\ callArgs.type = 2
    /\ ArgBytes = <<1, 3, 100, 100, 0, 5, 72, 101, 108, 108, 111>>
    /\ batLeft = <<3>> /\ batRight = <<100>>

---------------------------------------------------------------------------
(* Properties of the gain and Q encoding (checked under SpecFn); gains and *)
(* Q factors in hundredths.                                                *)

Dist(a, b) == IF a >= b THEN a - b ELSE b - a
Clamp(x)   == IF x < 0 THEN 0 ELSE IF x > 255 THEN 255 ELSE x
Encoded    == callArgs.op = "encodeGain" /\ pc # "ready"
IsHalf(h)  == h % 10 = 5

\* C7: encodeGain(dB) is round(dB * 10) + 120 clamped into 0..255 for every
\* input and never fails; -12.0 gives 0, 0.0 gives 120, 6.0 gives 180 and 13.5
\* gives 255; for dB in [-12.0, 13.5] the clamping changes nothing.
C7_EncodeGainFormula ==
    Encoded =>
        LET h == callArgs.num
            e == callResult.num
        IN  /\ ~ callResult.threw
            /\ e \in 0..255
            /\ \E n \in -300..300 : Dist(10 * n, h) <= 5 /\ e = Clamp(n + 120)
            /\ h = -1200 => e = 0
            /\ h = 0 => e = 120
            /\ h = 600 => e = 180
            /\ h = 1350 => e = 255
            /\ (h >= -1200 /\ h <= 1350) => Dist(10 * (e - 120), h) <= 5

C7_Witness ==
    Encoded /\ callArgs.num = 1350 /\ callResult.num = 255

\* The two rounding modes of the claim, on an exact half h = 10 k + 5.
HalfEven(h) == LET k == (h - 5) \div 10 IN IF k % 2 = 0 THEN k ELSE k + 1
HalfAway(h) == LET k == (h - 5) \div 10 IN IF h > 0 THEN k + 1 ELSE k
HalfGains   == {g \in (-GainSpan)..GainSpan : IsHalf(g)}

\* C8 as stated: on exact halves of a tenth the rounding of encodeGain is
\* round-half-to-even for every input, or round-half-away-from-zero for every
\* input, negative gains included.
C8_HalfEvenOrAway ==
    (Encoded /\ IsHalf(callArgs.num)) =>
        \/ /\ callResult.num = Clamp(HalfEven(callArgs.num) + 120)
           /\ \A g \in HalfGains : encodeGain(g) = Clamp(HalfEven(g) + 120)
        \/ /\ callResult.num = Clamp(HalfAway(callArgs.num) + 120)
           /\ \A g \in HalfGains : encodeGain(g) = Clamp(HalfAway(g) + 120)

\* C8 amended: on exact halves the rounding of encodeGain and of the Q encoding
\* is round-half-up for every input: dB * 10 = k + 0.5 goes to k + 1, which is
\* away from zero for the inputs >= 0 and towards zero for the negative ones.
C8_HalfUp ==
    /\ (Encoded /\ IsHalf(callArgs.num)) =>
          callResult.num = Clamp((callArgs.num - 5) \div 10 + 1 + 120)
    /\ (callArgs.op = "encodeQ" /\ pc = "returned" /\ IsHalf(callArgs.num)) =>
          callResult.num = Clamp((callArgs.num - 5) \div 10 + 1)

C8_Witness ==
    Encoded /\ callArgs.num = -15 /\ callResult.num = 119

\* C9: the gain encoding round-trips at 0.1 dB: decodeGain(encodeGain(x)) = x
\* for every multiple x of 0.1 dB in [-12.0, 13.5], and
\* encodeGain(decodeGain(b)) = b for every byte b.
C9_GainRoundTrip ==
    /\ ( /\ callArgs.op = "encodeGain" /\ pc = "returned"
         /\ callArgs.num % 10 = 0
         /\ callArgs.num >= -1200 /\ callArgs.num <= 1350 ) =>
            callBack = callArgs.num
    /\ (callArgs.op = "decodeGain" /\ pc = "returned") =>
            callBack = callArgs.num

C9_Witness ==
    /\ callArgs.op = "decodeGain" /\ pc = "returned"
    /\ callArgs.num = 255 /\ callResult.num = 1350 /\ callBack = 255

---------------------------------------------------------------------------
(* Properties of the program (checked under Spec) *)

\* C10: every CustomEq frame written to the link is 51 58 57 20 03 18 followed
\* by 24 bytes, the triplets [i, gain byte of band i, Q byte of band i] for
\* i = 0..7 in order, of the EQ state the send was invoked on.
C10_CustomEqFrame ==
    [][ (txCount' # txCount /\ txLast'[4] = CMD_CUSTOM_EQ) =>
           /\ Len(txLast') = 30
           /\ SubSeq(txLast', 1, 6) = <<81, 88, 87, 32, 3, 24>>
           /\ \A i \in 0..7 :
                 /\ txLast'[7 + 3 * i] = i
                 /\ txLast'[8 + 3 * i] = bandGains'[i + 1]
                 /\ txLast'[9 + 3 * i] = bandQs'[i + 1] ]_vars

C10_Witness ==
    /\ txCount > 0 /\ Len(txLast) = 30 /\ txLast[4] = CMD_CUSTOM_EQ
    /\ bandGains[1] = 180 /\ txLast[8] = 180
    /\ bandQs[1] = 7 /\ txLast[9] = 7

\* C11: whatever slider edits, custom presets, resets, connects and
\* disconnects have happened, the EQ state has exactly 8 bands and every gain
\* byte and Q byte is an integer in 0..255; before the first event every band
\* is (120, 7).
C11_EqStateShape ==
    /\ DOMAIN bandGains = 1..8
    /\ DOMAIN bandQs = 1..8
    /\ \A i \in 1..8 : bandGains[i] \in 0..255 /\ bandQs[i] \in 0..255
    /\ events = 0 => \A i \in 1..8 : bandGains[i] = 120 /\ bandQs[i] = 7

C11_Witness ==
    /\ bandGains = <<0, 156, 174, 146, 0, 102, 19, 248>>
    /\ bandQs = <<1, 53, 1, 250, 1, 170, 17, 1>>
    /\ ~ connected

\* C12: applying a preset whose band list does not have exactly 8 entries
\* fails before any I/O and leaves all 8 bands as they were: no band is
\* overwritten and no frame is written.
C12_WrongLengthRejected ==
    ( /\ callArgs.op = "applyCustomPreset" /\ pc = "returned"
      /\ Len(callArgs.bands) # 8 ) =>
        /\ callResult.threw
        /\ bandGains = callArgs.eq.gains
        /\ bandQs = callArgs.eq.qs
        /\ txCount = 1 /\ txLast = <<81, 88, 87, 39, 1, 0>>
        /\ tasks = EmptyBag

\* The gain and Q bytes of the two presets of CUSTOM_PRESETS, and the CustomEq
\* frame of an EQ state, written out.
PresetBytes ==
    << [gains |-> <<75, 204, 42, 126, 12, 255, 65, 70>>,
        qs    |-> <<1, 2, 5, 39, 7, 4, 13, 84>>],
       [gains |-> <<87, 156, 174, 146, 0, 102, 19, 248>>,
        qs    |-> <<1, 53, 1, 250, 1, 170, 17, 1>>] >>
FrameOf(g, q) ==
    <<81, 88, 87, 32, 3, 24>>
    \o <<0, g[1], q[1]>> \o <<1, g[2], q[2]>> \o <<2, g[3], q[3]>>
    \o <<3, g[4], q[4]>> \o <<4, g[5], q[5]>> \o <<5, g[6], q[6]>>
    \o <<6, g[7], q[7]>> \o <<7, g[8], q[8]>>
Flat == [i \in 1..8 |-> 120]
FlatQ == [i \in 1..8 |-> 7]

\* The step starts the application of preset p: its async function appears.
Applying(p) ==
    \E t \in BagToSet(tasks') :
       /\ t.fn = "applyCustomPreset" /\ t.arg = p /\ t.at = "write"
       /\ CopiesIn(t, tasks') > CopiesIn(t, tasks)

\* C13: an 8-band preset is applied atomically.  Every step that changes the
\* EQ state leaves a whole preset, the flat state, or the old state with one
\* gain moved, so no handler finds bands of a preset next to bands it has not
\* reached yet; the step that applies preset p leaves exactly its 8 encoded
\* pairs and the CustomEq frame it writes carries exactly them.
C13_PresetAtomic ==
    [][ /\ (bandGains' # bandGains \/ bandQs' # bandQs) =>
              \/ \E p \in 1..2 : /\ bandGains' = PresetBytes[p].gains
                                 /\ bandQs' = PresetBytes[p].qs
              \/ bandGains' = Flat /\ bandQs' = FlatQ
              \/ /\ bandQs' = bandQs
                 /\ \E i \in 1..8 : \A j \in 1..8 :
                        j # i => bandGains'[j] = bandGains[j]
        /\ \A p \in 1..2 : Applying(p) =>
              /\ bandGains' = PresetBytes[p].gains
              /\ bandQs' = PresetBytes[p].qs
              /\ txCount' # txCount =>
                    txLast' = FrameOf(PresetBytes[p].gains, PresetBytes[p].qs)
      ]_vars

C13_Witness ==
    /\ \E t \in BagToSet(tasks) : t.fn = "applyCustomPreset" /\ t.arg = 2
    /\ txLast = FrameOf(PresetBytes[2].gains, PresetBytes[2].qs)
    /\ bandGains = <<180, 156, 174, 146, 0, 102, 19, 248>>

ResetLine == LogLine("EQ reset to flat", <<>>)

\* C14: a reset leaves every band at gain byte 120 and Q byte 7 whatever the
\* state was, and writes nothing; the CustomEq frame sent from the state a
\* reset leaves is 51 58 57 20 03 18 then 00 78 07, 01 78 07, ..., 07 78 07.
C14_ResetFlat ==
    [][ /\ (resetSliders \/ (logLast' = ResetLine /\ logLast # ResetLine)) =>
              /\ \A i \in 1..8 : bandGains'[i] = 120 /\ bandQs'[i] = 7
              /\ txLast' = txLast /\ txCount' = txCount
              /\ tasks' = tasks
        /\ ( /\ bandGains = Flat /\ bandQs = FlatQ
             /\ bandGains' = bandGains /\ bandQs' = bandQs
             /\ txCount' # txCount /\ txLast'[4] = 32 ) =>
              txLast' = <<81, 88, 87, 32, 3, 24,
                          0, 120, 7, 1, 120, 7, 2, 120, 7, 3, 120, 7,
                          4, 120, 7, 5, 120, 7, 6, 120, 7, 7, 120, 7>>
      ]_vars

C14_Witness ==
    /\ logLast = ResetLine
    /\ bandGains = Flat /\ bandQs = FlatQ
    /\ \E t \in BagToSet(tasks) : t.fn = "applyCustomPreset" /\ t.arg = 1
    /\ txLast = FrameOf(PresetBytes[1].gains, PresetBytes[1].qs)

\* C15: setting one band changes only that band: an edit of band i leaves the
\* gain and Q bytes of every other band as they were, and band 0 set to
\* +6.0 dB (byte 180) from the default state gives a CustomEq frame whose
\* payload starts 00 B4 07 with the other seven triplets unchanged; a band
\* index outside 0..7 is rejected and changes nothing.
C15_OnlyThatBand ==
    (callArgs.op = "sliderInput" /\ pc = "returned") =>
        IF callArgs.idx \in 0..7
        THEN /\ ~ callResult.threw
             /\ DOMAIN bandGains = 1..8
             /\ bandGains[callArgs.idx + 1] = callArgs.num
             /\ \A j \in 1..8 :
                   j # callArgs.idx + 1 => bandGains[j] = callArgs.eq.gains[j]
             /\ bandQs = callArgs.eq.qs
             /\ ( /\ callArgs.idx = 0 /\ callArgs.num = 180
                  /\ callArgs.eq.gains = Flat /\ callArgs.eq.qs = FlatQ ) =>
                   sendCustomEQPacket(bandGains, bandQs) =
                       <<81, 88, 87, 32, 3, 24,
                         0, 180, 7, 1, 120, 7, 2, 120, 7, 3, 120, 7,
                         4, 120, 7, 5, 120, 7, 6, 120, 7, 7, 120, 7>>
        ELSE /\ callResult.threw
             /\ bandGains = callArgs.eq.gains
             /\ bandQs = callArgs.eq.qs

TooShort == LogLine("Device info payload too short", <<>>)

\* C16: a device-info notification whose payload has fewer than 5 bytes is
\* dropped: it is logged, the shown batteries and name stay, and the session
\* stays as it is, connected included; with a payload of at least 5 bytes the
\* left battery is payload[2] and the right battery payload[3], whatever
\* bytes 0, 1 and 4 are.
C16_ShortInfoDropped ==
    [][ \A v \in RxFrames :
          ( /\ Notify /\ onNotification(v)
            /\ WellPrefixed(v) /\ v[4] = 39 /\ v[5] = 2 ) =>
              IF Len(v) - 5 < 5
              THEN /\ logLast' = TooShort
                   /\ batLeft' = batLeft /\ batRight' = batRight
                   /\ deviceName' = deviceName
                   /\ infoCardHidden' = infoCardHidden
                   /\ connected' = connected
                   /\ server' = server /\ writeChar' = writeChar
                   /\ notifyChar' = notifyChar
                   /\ handlers' = handlers /\ linkUp' = linkUp
                   /\ statusText' = statusText
              ELSE /\ batLeft' = <<v[8]>>
                   /\ batRight' = <<v[9]>>
                   /\ infoCardHidden' = FALSE
      ]_vars

C16_Witness ==
    /\ logLast = TooShort
    /\ connected /\ writeChar = "eq" /\ "eq" \in handlers
    /\ batLeft = <<100>> /\ batRight = <<100>>
    /\ deviceName = <<72, 101, 108, 108, 111>>

\* The handler has parsed the notification as device info.
Parsed ==
    /\ Handled /\ WellPrefixed(callArgs.value)
    /\ callArgs.value[4] = 39 /\ callArgs.value[5] = 2
    /\ Len(callArgs.value) >= 10
Printable(name) == \A k \in 1..Len(name) : name[k] >= 32 /\ name[k] <= 126

\* C17 as stated: for every inbound payload the device info the parser gives
\* has both batteries in 0..100 and a name of 0..31 characters, all printable
\* ASCII (0x20..0x7e).
C17_InfoInDataModel ==
    Parsed =>
        /\ batLeft[1] \in 0..100
        /\ batRight[1] \in 0..100
        /\ Len(deviceName) \in 0..31
        /\ Printable(deviceName)

\* C17 amended: for every inbound payload of at least 5 bytes the batteries
\* are the bytes payload[2] and payload[3] as received, so in 0..255 and in
\* 0..100 exactly when those bytes are, and the name has 0..31 characters,
\* all printable ASCII.
C17_InfoBytesAndName ==
    Parsed =>
        /\ batLeft[1] \in 0..255
        /\ batRight[1] \in 0..255
        /\ batLeft[1] <= 100 <=> callArgs.value[8] <= 100
        /\ batRight[1] <= 100 <=> callArgs.value[9] <= 100
        /\ Len(deviceName) \in 0..31
        /\ Printable(deviceName)

C17_Witness ==
    /\ Parsed
    /\ callArgs.value = <<81, 88, 87, 39, 2, 5, 1, 3, 200, 250, 0, 0, 3, 65, 31, 66>>
    /\ batLeft = <<3>> /\ batRight = <<200>>
    /\ deviceName = <<>>

\* Byte k (from 0) of the info payload of the notification handled, the length
\* of that payload, and the indices that hold a length-prefixed printable run.
InfoByte(k) == callArgs.value[6 + k]
InfoLen     == Len(callArgs.value) - 5
NameStart(i) ==
    /\ 5 <= i /\ i < InfoLen
    /\ 0 < InfoByte(i) /\ InfoByte(i) < 32
    /\ i + 1 + InfoByte(i) <= InfoLen
    /\ \A k \in (i + 1)..(i + InfoByte(i)) :
          InfoByte(k) >= 32 /\ InfoByte(k) <= 126

\* C18: the device name is the rightmost length-prefixed printable run: the
\* bytes payload[i+1 .. i+1+n) for the largest i with 5 <= i < len(payload),
\* n = payload[i], 0 < n < 32, i+1+n <= len(payload) and all n bytes in
\* 0x20..0x7e; it is empty iff there is no such i.  The payload
\* 01 03 64 64 00 05 48 65 6c 6c 6f gives battery 100/100 and name "Hello".
C18_RightmostName ==
    Parsed =>
        /\ \A i \in 5..(InfoLen - 1) :
              (NameStart(i) /\ \A j \in (i + 1)..(InfoLen - 1) : ~ NameStart(j)) =>
                 deviceName = [k \in 1..InfoByte(i) |-> InfoByte(i + k)]
        /\ deviceName = <<>> <=> ~ \E i \in 5..(InfoLen - 1) : NameStart(i)
        /\ callArgs.value =
              <<81, 88, 87, 39, 2, 1, 3, 100, 100, 0, 5, 72, 101, 108, 108, 111>> =>
                 /\ batLeft = <<100>> /\ batRight = <<100>>
                 /\ deviceName = <<72, 101, 108, 108, 111>>

C18_Witness ==
    /\ Parsed
    /\ callArgs.value = <<81, 88, 87, 39, 2, 1, 3, 100, 100, 0, 2, 65, 66, 1, 67>>
    /\ deviceName = <<67>>

\* The step ends, as a failure, the connect attempt that task t belongs to.
FailsAt(t) ==
    /\ t \in BagToSet(tasks) /\ t.fn = "connect"
    /\ \E d \in Devices \cup {Null} : tasks' = LinkLost(d, tasks (-) One(t))
    /\ statusText' = "Wrong device"
Released ==
    /\ connected' = FALSE
    /\ server' = Null /\ writeChar' = Null /\ notifyChar' = Null

\* C19: when gatt.connect() fails the attempt ends failed and not connected
\* with every partial resource released: connected is false, the server, write
\* and notify handles are null, no frame has been written by the attempt, and
\* a new attempt can be started.
C19_GattFailureReleases ==
    [][ \A t \in Waiting("gattConnect") : FailsAt(t) =>
           /\ Released
           /\ txCount' = txCount /\ txLast' = txLast
           /\ connectBtn'.shown /\ ~ connectBtn'.disabled
      ]_vars

\* C20: when the service lookup, a characteristic lookup or the subscription
\* fails after gatt.connect() succeeded, the link is disconnected before the
\* failure is shown, and the attempt ends with connected false and all handles
\* null: no GATT link stays open after a failed attempt.
C20_DiscoveryFailureDisconnects ==
    [][ \A t \in Waiting("getPrimaryService") \cup Waiting("getWriteChar")
                 \cup Waiting("getNotifyChar") \cup Waiting("startNotifications") :
           FailsAt(t) =>
              /\ Released
              /\ t.dev \notin linkUp'
      ]_vars

\* A frame goes out on the link in this step.
FrameWritten == txCount' = txCount + 1

\* Commands that are in their write or in their post-command delay.
InFlight == {t \in BagToSet(tasks) : t.fn # "disconnect" /\ t.at \in {"write", "delay"}}

\* C21: in every successful connection the first write comes after GATT
\* connect, service and characteristic lookup, subscription and handler
\* registration; the first frame written on a connection is the DeviceInfo
\* request 51 58 57 27 01 00, and it is written before any SelectEq or CustomEq
\* frame.
C21_DeviceInfoFirst ==
    [][ /\ \A t \in Waiting("startNotifications") :
              (tasks' = (tasks (-) One(t)) (+) One([t EXCEPT !.at = "write", !.ok = TRUE])
               \/ tasks' = (tasks (-) One(t)) (+) One([t EXCEPT !.at = "write", !.ok = FALSE]))
              => /\ t.dev \in linkUp
                 /\ server # Null /\ writeChar # Null /\ notifyChar # Null
                 /\ notifyChar \in handlers'
                 /\ FrameWritten => txLast' = <<81, 88, 87, 39, 1, 0>>
        /\ (FrameWritten /\ txCount = 0) => txLast' = <<81, 88, 87, 39, 1, 0>>
      ]_vars

\* C22: commands are serialized: no frame is written to the link while an
\* earlier send is still in its write or in its post-command delay.
C22_Serialized ==
    [][ FrameWritten => InFlight = {} ]_vars

\* The explicit disconnects that are under way.
Disconnecting == {t \in BagToSet(tasks) : t.fn = "disconnect"}

\* The step ends the explicit disconnect t.
Completes(t) ==
    /\ t \in Disconnecting
    /\ \E d \in Devices \cup {Null} : tasks' = LinkLost(d, tasks (-) One(t))

\* C23: an explicit disconnect removes the notification handler and stops
\* notifications, then waits, then releases the GATT connection and clears the
\* session: the link is never released before notifications were stopped, and
\* no notification is processed once disconnect has removed the handler.
C23_DisconnectOrder ==
    [][ /\ \A t \in BagToSet(tasks') :
              (/\ t.fn = "disconnect" /\ t.at = "stopNotifications" /\ t.ok
               /\ CopiesIn(t, tasks') > CopiesIn(t, tasks))
                    => /\ t.dev \notin handlers'
                       /\ linkUp' = linkUp
                       /\ UNCHANGED sessVars
        /\ \A t \in Disconnecting :
              /\ (t.at = "stopNotifications"
                  /\ tasks' = (tasks (-) One(t)) (+) One([t EXCEPT !.at = "delay"]))
                    => /\ linkUp' = linkUp
                       /\ UNCHANGED <<server, writeChar, notifyChar>>
              /\ (t.at = "delay" /\ Completes(t))
                    => /\ Released
                       /\ linkUp' # linkUp => t.dev # Null
      ]_vars

\* The step handles a gattserverdisconnected event.
SignalHandled == pendingDrop' # pendingDrop /\ pendingDrop' \subseteq pendingDrop

\* C24: a link drop signalled in any state is a normal transition to Idle: once
\* the disconnection signal is handled, connected is false, the server and both
\* characteristic handles are null, the EQ controls are disabled, the connect
\* control is available and no error status is shown.
C24_DropToIdle ==
    [][ SignalHandled =>
           /\ Released
           /\ ~ controlsEnabled'
           /\ connectBtn'.shown /\ ~ connectBtn'.disabled
           /\ ~ disconnectShown'
           /\ statusText' = "Disconnected" /\ statusClass' # "error"
      ]_vars

C24_Witness ==
    /\ logLast = LogLine("Device disconnected", <<>>)
    /\ cardsShown /\ txCount = 1 /\ events = 2
    /\ Disconnecting = {}
    /\ ~ connected /\ writeChar = Null /\ ~ controlsEnabled
    /\ connectBtn.shown /\ statusText = "Disconnected"

\* The lines onNotification writes to the log.
RxLines == {"Unknown packet (no QXW prefix)", "Device info payload too short",
            "Battery", "Preset change confirmed", "Custom EQ confirmed",
            "Unknown command"}

\* A Request-type frame (DeviceInfo request or SelectEq) has just gone out.
RequestAwaited ==
    \E t \in BagToSet(tasks) :
       t.fn \in {"connect", "selectPreset"} /\ t.at = "write" /\ t.ok

TimeoutReported == logLast.tag = "Timeout" \/ statusText = "Timeout"

\* C25: after a Request-type send, either a notification arrives or a Timeout
\* failure is reported to the caller (unless the session has ended meanwhile).
C25_TimeoutReported ==
    RequestAwaited ~> (logLast.tag \in RxLines \/ TimeoutReported \/ ~ connected)

\* The step is a click on "Disconnect": disconnect() starts.
DisconnectInvoked ==
    /\ events' = events + 1
    /\ \E t \in BagToSet(tasks') :
          /\ t.fn = "disconnect" /\ t.ok
          /\ CopiesIn(t, tasks') > CopiesIn(t, tasks)

\* C26: calling disconnect while a command is in flight cancels the wait: the
\* pending await of the command ends with the call, the command does not run
\* on to completion.
C26_DisconnectCancels ==
    [][ DisconnectInvoked => InFlight' = {} ]_vars

\* The step delivers the rejection of a write to its sender.
WriteFails ==
    \E t \in Waiting("write") : ~ t.ok /\ tasks' = tasks (-) One(t)

\* C27: a write failure moves the session to Failed, in the initial DeviceInfo
\* request as in a later preset or custom-EQ send: afterwards connected is
\* false, the GATT link and the handles are released, the EQ controls are
\* disabled and no send is accepted before a new connect.
C27_WriteFailureEndsSession ==
    [][ WriteFails =>
           /\ Released
           /\ writeChar \notin linkUp'
           /\ ~ controlsEnabled'
      ]_vars

\* The step runs the notification handler, which writes a new line to the log.
NotificationLogged == logLast' # logLast /\ logLast'.tag \in RxLines

\* C28: handling an inbound notification of any content never changes the EQ
\* state or the connection state: the gain and Q bytes, the connected flag and
\* the server and characteristic handles stay as they are, and a ready session
\* stays ready.
C28_NotificationLeavesState ==
    [][ NotificationLogged =>
           UNCHANGED <<sessVars, eqVars, controlsEnabled, statusText, statusClass>>
      ]_vars

C28_Witness ==
    /\ logLast = UnknownPacket
    /\ connected /\ writeChar # Null /\ controlsEnabled
    /\ bandGains # Flat

\* selectPreset has been called on callArgs.num.
Selected == callArgs.op = "selectPreset" /\ pc = "returned"

\* C29: every SelectEq frame written to the link is 51 58 57 10 01 01 PP with
\* PP in 1..4: selectPreset(n) with n in 1..4 writes that frame with PP = n,
\* and a preset number outside 1..4 is rejected before any I/O, no frame being
\* written.
C29_SelectEqFrame ==
    /\ (txCount > 0 /\ Len(txLast) >= 4 /\ txLast[4] = CMD_SELECT_EQ)
          => \E pp \in 1..4 : txLast = <<81, 88, 87, 16, 1, 1, pp>>
    /\ Selected =>
          IF callArgs.num \in 1..4
          THEN /\ logLast = LogLine("TX", <<81, 88, 87, 16, 1, 1, callArgs.num>>)
               /\ txCount = 2 => txLast = <<81, 88, 87, 16, 1, 1, callArgs.num>>
          ELSE /\ txCount = 1 /\ txLast = requestDeviceInfoPacket
               /\ tasks = EmptyBag
               /\ logLast.tag # "TX"

\* No connect() and no disconnect() is under way.
Quiet == \A t \in BagToSet(tasks) : t.fn \notin {"connect", "disconnect"}

\* C30: in every reachable state connected = true implies that the server,
\* write and notify handles are all non-null, and when no connect or disconnect
\* is in progress connected = false implies that the write handle is null and
\* the EQ controls are disabled.
C30_SessionConsistent ==
    /\ connected => (server # Null /\ writeChar # Null /\ notifyChar # Null)
    /\ (Quiet /\ ~ connected) => (writeChar = Null /\ ~ controlsEnabled)

\* C31: a disconnection signal of a previously attempted device or link never
\* tears down a later session: handled after a new connect has succeeded, it
\* leaves connected = true and the handles of the new session, and the program
\* never holds an open GATT link whose handles it has cleared.
C31_StaleSignalHarmless ==
    [][ (SignalHandled /\ connected /\ server # Null /\ server \in linkUp)
           => /\ connected'
              /\ UNCHANGED <<server, writeChar, notifyChar>>
              /\ server' \in linkUp'
      ]_vars

\* C32: every explicit disconnect that completes leaves the GATT link released
\* and the session idle (connected false, all handles null), also when
\* stopping notifications fails: no completed disconnect leaves a connected
\* link whose server handle was dropped.
C32_DisconnectReleasesLink ==
    [][ \A t \in Disconnecting : Completes(t) =>
           /\ Released
           /\ server # Null => server \notin linkUp'
           /\ t.dev # Null => t.dev \notin linkUp'
      ]_vars

\* C33: frames are written to the link only while the session is ready: none
\* before the notification subscription of the connection is complete, none
\* once an explicit disconnect has been invoked (its stop-notifications and
\* wait steps included), none after a disconnection signal was handled, and a
\* send without a write characteristic writes nothing.
C33_WritesOnlyWhenReady ==
    [][ /\ FrameWritten =>
              /\ writeChar # Null /\ writeChar \in linkUp
              /\ writeChar \in handlers'
              /\ connected'
              /\ Disconnecting = {}
        /\ writeChar = Null => UNCHANGED txVars
      ]_vars

\* C34: when a disconnection signal is delivered while an explicit disconnect
\* is in its stop-notifications step or its wait, the explicit disconnect still
\* completes without calling disconnect on a cleared or dropped link (no error
\* is raised by its release step), the session ends idle with connected false
\* and all handles null, and the second cleanup changes nothing.
C34_SignalDuringDisconnect ==
    [][ /\ \A t \in Disconnecting : Completes(t) =>
              /\ Released
              /\ ~ controlsEnabled'
              /\ statusText' = "Disconnected"
              /\ connectBtn'.shown /\ ~ connectBtn'.disabled
              /\ t.at = "delay" =>
                    /\ logLast' # logLast => logLast' = LogLine("Disconnected", <<>>)
                    /\ linkUp' # linkUp => (server # Null /\ server \in linkUp)
                    /\ (server = Null /\ writeChar = Null /\ notifyChar = Null
                          /\ ~ connected) =>
                          UNCHANGED <<sessVars, controlsEnabled, linkUp, logLast>>
        /\ (SignalHandled /\ Disconnecting # {}) =>
              /\ Released
              /\ Disconnecting' = Disconnecting
      ]_vars

\* A disconnection signal was handled during the wait of an explicit
\* disconnect after one frame had been written: the handles are cleared, the
\* link is gone, the log ends with the line of onDisconnected, and the
\* explicit disconnect has its release step and cleanup still to run.
C34_Witness ==
    /\ \E t \in Disconnecting : t.at = "delay" /\ t.dev # Null
    /\ pendingDrop = {} /\ linkUp = {}
    /\ logLast = LogLine("Device disconnected", <<>>)
    /\ statusText = "Disconnected"
    /\ cardsShown /\ txCount = 1
    /\ ~ connected /\ server = Null /\ writeChar = Null /\ notifyChar = Null

\* The 0-based indices of the info payload whose byte is a length n with
\* 0 < n < 32 followed by exactly n printable bytes that end the payload.
TerminalName(i) ==
    /\ 5 <= i /\ i < InfoLen
    /\ 0 < InfoByte(i) /\ InfoByte(i) < 32
    /\ i + 1 + InfoByte(i) = InfoLen
    /\ \A k \in (i + 1)..(InfoLen - 1) : InfoByte(k) >= 32 /\ InfoByte(k) <= 126

\* C35: when the device-info payload ends with a length-prefixed name (a byte
\* n with 0 < n < 32 at an index i >= 5, then exactly n printable bytes up to
\* the end of the payload), the parser shows exactly those n characters, and
\* no index inside the name is a candidate of the scan, whatever the bytes
\* before index i are.
C35_TerminalNameWhole ==
    Parsed =>
        \A i \in 5..(InfoLen - 1) : TerminalName(i) =>
           /\ Len(deviceName) = InfoByte(i)
           /\ \A k \in 1..InfoByte(i) : deviceName[k] = InfoByte(i + k)
           /\ \A j \in (i + 1)..(InfoLen - 1) :
                 ~ NameAt(rxPayload(callArgs.value), j).found
           /\ logLast = LogLine("Battery",
                                <<InfoByte(2), InfoByte(3)>> \o deviceName)

\* The payload 01 03 32 3c 00 02 41 42 03 20 21 7e was parsed: the bytes before
\* the name hold a shorter length-prefixed run, the name starts with a space.
C35_Witness ==
    /\ Parsed
    /\ callArgs.value =
          <<81, 88, 87, 39, 2, 1, 3, 50, 60, 0, 2, 65, 66, 3, 32, 33, 126>>
    /\ TerminalName(8)
    /\ deviceName = <<32, 33, 126>>
====
